---- MODULE Spec2Model ----
(***************************************************************************)
(* GraphBinary v1 codec of gremlin-python                                  *)
(* (gremlin_python/structure/io/graphbinaryV1.py).                         *)
(*                                                                         *)
(* The writer and the reader are pure functions; they are modelled as      *)
(* recursive operators over byte sequences (Seq(0..255)) and over a        *)
(* uniform record representation of Python objects.  The state machine     *)
(* applies them to inputs drawn from bounded sets.  Python 3 semantics     *)
(* are used throughout (len(str) counts characters, bytes[i] is an int,    *)
(* BytesIO.read returns short at end of input).                            *)
(***************************************************************************)
EXTENDS Integers, Sequences, FiniteSets, TLC

(***************************************************************************)
(* Bounds of the model.                                                    *)
(***************************************************************************)
\* longest prefix of an encoding handed to the reader as truncated input
MaxKeep == 40
\* longest tail of extra bytes placed after a value handed to the reader
MaxTail == 1
\* largest bulk of a traverser drawn as input
MaxBulk == 2
\* longest list, set or argument list drawn as input
MaxLen == 2

(***************************************************************************)
(* DataType: the wire type codes.                                          *)
(***************************************************************************)
DataType ==
  [ null |-> 254, int |-> 1, long |-> 2, string |-> 3, date |-> 4,
    timestamp |-> 5, clazz |-> 6, double |-> 7, float |-> 8, list |-> 9,
    map |-> 10, set |-> 11, uuid |-> 12, edge |-> 13, path |-> 14,
    property |-> 15, graph |-> 16, vertex |-> 17, vertexproperty |-> 18,
    barrier |-> 19, binding |-> 20, bytecode |-> 21, cardinality |-> 22,
    column |-> 23, direction |-> 24, operator |-> 25, order |-> 26,
    pick |-> 27, pop |-> 28, lambda_ |-> 29, p |-> 30, scope |-> 31,
    t |-> 32, traverser |-> 33, bigdecimal |-> 34, biginteger |-> 35,
    byte |-> 36, bytebuffer |-> 37, short |-> 38, boolean |-> 39,
    textp |-> 40, traversalstrategy |-> 41, bulkset |-> 42, tree |-> 43,
    metrics |-> 44, traversalmetrics |-> 45, custom |-> 0 ]

\* the values of the DataType enumeration
DataTypeValues == { DataType[k] : k \in DOMAIN DataType }

(***************************************************************************)
(* Byte layer: struct.pack / struct.unpack, str.encode / bytes.decode.     *)
(***************************************************************************)
Byte == 0..255

\* F applied to the value of e, which is evaluated once: the statements
\* of a method body run one after the other
Then(e, F(_)) == CHOOSE r \in { F(x) : x \in {e} } : TRUE

\* struct.pack(">i", n), n within the signed 32-bit range
PackI32(n) ==
  IF n >= 0
  THEN << n \div 16777216, (n \div 65536) % 256, (n \div 256) % 256, n % 256 >>
  ELSE LET m == -(n + 1)
       IN << 255 - (m \div 16777216), 255 - ((m \div 65536) % 256),
             255 - ((m \div 256) % 256), 255 - (m % 256) >>

\* struct.unpack(">i", b)[0] for a 4-byte b
UnpackI32(b) ==
  IF b[1] < 128
  THEN b[1] * 16777216 + b[2] * 65536 + b[3] * 256 + b[4]
  ELSE -((255 - b[1]) * 16777216 + (255 - b[2]) * 65536
         + (255 - b[3]) * 256 + (255 - b[4])) - 1

\* struct.pack(">q", n) for n within the signed 32-bit range (sign extended)
PackI64(n) ==
  (IF n >= 0 THEN <<0, 0, 0, 0>> ELSE <<255, 255, 255, 255>>) \o PackI32(n)

\* an 8-byte big-endian pattern is the sign extension of its low 4 bytes
IsNarrowI64(b) ==
  \/ b[1] = 0 /\ b[2] = 0 /\ b[3] = 0 /\ b[4] = 0 /\ b[5] < 128
  \/ b[1] = 255 /\ b[2] = 255 /\ b[3] = 255 /\ b[4] = 255 /\ b[5] >= 128

\* struct.pack(">b", n), -128 <= n <= 127
PackI8(n) == IF n >= 0 THEN <<n>> ELSE <<256 + n>>

\* struct.unpack(">b", b)[0] for a 1-byte b
UnpackI8(b) == IF b[1] < 128 THEN b[1] ELSE b[1] - 256

\* the UTF-8 encoding of one code point (no surrogates)
Utf8Char(cp) ==
  IF cp < 128 THEN <<cp>>
  ELSE IF cp < 2048 THEN << 192 + (cp \div 64), 128 + (cp % 64) >>
  ELSE IF cp < 65536
       THEN << 224 + (cp \div 4096), 128 + ((cp \div 64) % 64), 128 + (cp % 64) >>
  ELSE << 240 + (cp \div 262144), 128 + ((cp \div 4096) % 64),
          128 + ((cp \div 64) % 64), 128 + (cp % 64) >>

RECURSIVE Utf8Encode(_)
\* s.encode("utf-8") for a string given as its sequence of code points
Utf8Encode(s) ==
  IF s = <<>> THEN <<>> ELSE Utf8Char(Head(s)) \o Utf8Encode(Tail(s))

IsCont(x) == x >= 128 /\ x < 192

RECURSIVE Utf8Decode(_)
\* b.decode("utf-8") (strict): [ok |-> TRUE, s |-> code points], or
\* [ok |-> FALSE, s |-> <<>>] when UnicodeDecodeError is raised
Utf8Decode(b) ==
  LET bad == [ok |-> FALSE, s |-> <<>>]
      n == Len(b)
      Rest(k, cp) ==
        Then(Utf8Decode(SubSeq(b, k + 1, n)), LAMBDA r :
          IF r.ok THEN [ok |-> TRUE, s |-> <<cp>> \o r.s] ELSE bad)
  IN
  IF n = 0 THEN [ok |-> TRUE, s |-> <<>>]
  ELSE IF b[1] < 128 THEN Rest(1, b[1])
  ELSE IF b[1] >= 194 /\ b[1] < 224
       THEN IF n >= 2 /\ IsCont(b[2])
            THEN Rest(2, (b[1] - 192) * 64 + (b[2] - 128))
            ELSE bad
  ELSE IF b[1] >= 224 /\ b[1] < 240
       THEN IF /\ n >= 3 /\ IsCont(b[2]) /\ IsCont(b[3])
               /\ (b[1] = 224 => b[2] >= 160)
               /\ (b[1] = 237 => b[2] < 160)
            THEN Rest(3, (b[1] - 224) * 4096 + (b[2] - 128) * 64 + (b[3] - 128))
            ELSE bad
  ELSE IF b[1] >= 240 /\ b[1] < 245
       THEN IF /\ n >= 4 /\ IsCont(b[2]) /\ IsCont(b[3]) /\ IsCont(b[4])
               /\ (b[1] = 240 => b[2] >= 144)
               /\ (b[1] = 244 => b[2] < 144)
            THEN Rest(4, (b[1] - 240) * 262144 + (b[2] - 128) * 4096
                         + (b[3] - 128) * 64 + (b[4] - 128))
            ELSE bad
  ELSE bad

(***************************************************************************)
(* Python objects.  Every object is a record [t, n, s, l]:                 *)
(*   t  the name of its concrete Python type                               *)
(*   n  an integer field (int/long/byte value, bool as 0/1, milliseconds   *)
(*      of a date or timestamp, bulk of a traverser)                       *)
(*   s  a sequence of naturals (code points of a str, label, key, name or  *)
(*      operator; bytes of a byte buffer, uuid or float bit pattern)       *)
(*   l  a sequence of objects (elements, attributes)                       *)
(***************************************************************************)
Obj(t, n, s, l) == [t |-> t, n |-> n, s |-> s, l |-> l]

None == Obj("NoneType", 0, <<>>, <<>>)
\* an int (IntType)
PyInt(n) == Obj("int", n, <<>>, <<>>)
\* a statics.long (LongType)
Long(n) == Obj("long", n, <<>>, <<>>)
\* a 64-bit integer too wide for the model's integers, kept as its
\* big-endian two's complement pattern
WideInt(b) == Obj("int", 0, b, <<>>)
\* a statics.long too wide for the model's integers, kept as its big-endian
\* two's complement pattern of 8 bytes, or of 9 when it needs more than 64
\* bits
WideLong(b) == Obj("long", 0, b, <<>>)
Str(s) == Obj("str", 0, s, <<>>)
\* statics.SingleChar, a subclass of str
SingleChar(s) == Obj("SingleChar", 0, s, <<>>)
Bool(n) == Obj("bool", n, <<>>, <<>>)
\* statics.SingleByte, a subclass of int
SingleByte(n) == Obj("SingleByte", n, <<>>, <<>>)
\* a float, as its IEEE-754 double bit pattern (8 bytes, big-endian)
Float(bits) == Obj("float", 0, bits, <<>>)
\* statics.timestamp (a subclass of float), as its milliseconds
Timestamp(ms) == Obj("timestamp", ms, <<>>, <<>>)
\* datetime.datetime, as its milliseconds since the epoch
Datetime(ms) == Obj("datetime", ms, <<>>, <<>>)
\* statics.ByteBufferType, a subclass of bytes
ByteBuffer(b) == Obj("ByteBufferType", 0, b, <<>>)
Uuid(b) == Obj("UUID", 0, b, <<>>)
List(l) == Obj("list", 0, <<>>, l)
\* a set, as the sequence of its elements in iteration order
SetOf(l) == Obj("set", 0, <<>>, l)
\* a dict, as the sequence k1, v1, k2, v2, ... of its items in order
Dict(l) == Obj("dict", 0, <<>>, l)
Vertex(id, label) == Obj("Vertex", 0, label, <<id>>)
\* graph.Edge.__init__(self, id, outV, label, inV)
Edge(id, outV, label, inV) == Obj("Edge", 0, label, <<id, outV, inV>>)
\* graph.Property.__init__(self, key, value, element)
Property(key, value, element) == Obj("Property", 0, key, <<value, element>>)
\* graph.VertexProperty.__init__(self, id, label, value, vertex)
VertexProperty(id, label, value, vertex) ==
  Obj("VertexProperty", 0, label, <<id, value, vertex>>)
\* graph.Path.__init__(self, labels, objects)
Path(labels, objects) == Obj("Path", 0, <<>>, <<labels, objects>>)
\* traversal.Binding.__init__(self, key, value)
Binding(key, value) == Obj("Binding", 0, key, <<value>>)
\* traversal.Traverser.__init__(self, object, bulk)
Traverser(object, bulk) == Obj("Traverser", bulk, <<>>, <<object>>)
\* traversal.P.__init__(self, operator, value, other=None)
P(operator, value, other) == Obj("P", 0, operator, <<value, other>>)
\* traversal.TextP.__init__(self, operator, value, other=None)
TextP(operator, value, other) == Obj("TextP", 0, operator, <<value, other>>)
\* one instruction [name, arg0, arg1, ...] of a Bytecode
Inst(name, args) == Obj("inst", 0, name, args)
\* traversal.Bytecode with its step_instructions and source_instructions
Bytecode(steps, sources) == Obj("Bytecode", 0, <<>>, <<List(steps), List(sources)>>)
\* a member of one of the traversal enums, by the enum's name and its own
EnumMember(enum, name) == Obj(enum, 0, name, <<>>)
\* a graph.Graph
Graph == Obj("Graph", 0, <<>>, <<>>)
\* a class object, by the instance that calling it without arguments makes
Type(instance) == Obj("type", 0, <<>>, <<instance>>)
\* a function that returns a lambda script: s is the script, l holds the
\* language when the function returns a (script, language) pair, n is the
\* co_argcount of the code object that eval of the cleaned script yields
Function(script, lang, argcount) == Obj("function", argcount, script, lang)
\* an instance of a class no serializer is registered for
Unregistered == Obj("object", 0, <<>>, <<>>)

\* attribute accessors of the graph and traversal classes
id(o) == o.l[1]
outV(o) == o.l[2]
inV(o) == o.l[3]
label(o) == o.s
key(o) == o.s
value(o) == IF o.t = "VertexProperty" THEN o.l[2] ELSE o.l[1]
other(o) == o.l[2]
operator(o) == o.s
object(o) == o.l[1]
bulk(o) == o.n
labels(o) == o.l[1]
objects(o) == o.l[2]
step_instructions(o) == o.l[1].l
source_instructions(o) == o.l[2].l

\* cls2 is cls1 or one of its base classes, for the classes of the model
IsSubclass(cls1, cls2) ==
  \/ cls1 = cls2
  \/ <<cls1, cls2>> \in { <<"bool", "int">>, <<"long", "int">>,
                          <<"SingleByte", "int">>, <<"timestamp", "float">>,
                          <<"SingleChar", "str">>, <<"TextP", "P">> }

\* isinstance(obj, cls)
isinstance(obj, cls) == IsSubclass(obj.t, cls)

\* hash(obj) succeeds: lists, sets and dicts are unhashable
Hashable(obj) == obj.t \notin {"list", "set", "dict"}

(***************************************************************************)
(* The handler classes in declaration order.  python_type and              *)
(* graphbinary_type are the attributes set in the class body: "None" is    *)
(* Python's None, "inherit" an attribute the body does not set.            *)
(***************************************************************************)
Cls(name, base, python_type, graphbinary_type) ==
  [name |-> name, base |-> base, python_type |-> python_type,
   graphbinary_type |-> graphbinary_type]

Classes ==
  << Cls("_GraphBinaryTypeIO", "object", "None", "None"),
     Cls("LongIO", "_GraphBinaryTypeIO", "long", "long"),
     Cls("IntIO", "LongIO", "int", "int"),
     Cls("DateIO", "_GraphBinaryTypeIO", "datetime", "date"),
     Cls("TimestampIO", "_GraphBinaryTypeIO", "timestamp", "timestamp"),
     Cls("FloatIO", "LongIO", "float", "float"),
     Cls("DoubleIO", "FloatIO", "inherit", "double"),
     Cls("TypeSerializer", "_GraphBinaryTypeIO", "type", "inherit"),
     Cls("StringIO", "_GraphBinaryTypeIO", "str", "string"),
     Cls("ListIO", "_GraphBinaryTypeIO", "list", "list"),
     Cls("SetIO", "ListIO", "set", "set"),
     Cls("MapIO", "_GraphBinaryTypeIO", "dict", "map"),
     Cls("UuidIO", "_GraphBinaryTypeIO", "UUID", "uuid"),
     Cls("EdgeIO", "_GraphBinaryTypeIO", "Edge", "edge"),
     Cls("PathIO", "_GraphBinaryTypeIO", "Path", "path"),
     Cls("PropertyIO", "_GraphBinaryTypeIO", "Property", "property"),
     Cls("TinkerGraphIO", "_GraphBinaryTypeIO", "Graph", "graph"),
     Cls("VertexIO", "_GraphBinaryTypeIO", "Vertex", "vertex"),
     Cls("VertexPropertyIO", "_GraphBinaryTypeIO", "VertexProperty", "vertexproperty"),
     Cls("_EnumIO", "_GraphBinaryTypeIO", "inherit", "inherit"),
     Cls("BarrierIO", "_EnumIO", "Barrier", "barrier"),
     Cls("CardinalityIO", "_EnumIO", "Cardinality", "cardinality"),
     Cls("ColumnIO", "_EnumIO", "Column", "column"),
     Cls("DirectionIO", "_EnumIO", "Direction", "direction"),
     Cls("OperatorIO", "_EnumIO", "Operator", "operator"),
     Cls("OrderIO", "_EnumIO", "Order", "order"),
     Cls("PickIO", "_EnumIO", "Pick", "pick"),
     Cls("PopIO", "_EnumIO", "Pop", "pop"),
     Cls("BindingIO", "_GraphBinaryTypeIO", "Binding", "binding"),
     Cls("BytecodeIO", "_GraphBinaryTypeIO", "Bytecode", "bytecode"),
     Cls("LambdaIO", "_GraphBinaryTypeIO", "function", "lambda_"),
     Cls("PIO", "_GraphBinaryTypeIO", "P", "p"),
     Cls("ScopeIO", "_EnumIO", "Scope", "scope"),
     Cls("TIO", "_EnumIO", "T", "t"),
     Cls("TraverserIO", "_GraphBinaryTypeIO", "Traverser", "traverser"),
     Cls("ByteIO", "_GraphBinaryTypeIO", "SingleByte", "byte"),
     Cls("ByteBufferIO", "_GraphBinaryTypeIO", "ByteBufferType", "bytebuffer"),
     Cls("BooleanIO", "_GraphBinaryTypeIO", "bool", "boolean"),
     Cls("TextPIO", "_GraphBinaryTypeIO", "TextP", "textp"),
     Cls("BulkSetIO", "_GraphBinaryTypeIO", "inherit", "bulkset") >>

\* the declaration of the class called name
ClassNamed(name) == Classes[CHOOSE i \in DOMAIN Classes : Classes[i].name = name]

\* the base class of a class; object is where the chain ends
Base(cls) == IF cls = "object" THEN "object" ELSE ClassNamed(cls).base

\* cls.python_type: the attribute of the nearest class that sets it (no
\* handler class is more than three classes away from _GraphBinaryTypeIO,
\* which sets it)
python_type(cls) ==
  IF ClassNamed(cls).python_type # "inherit" THEN ClassNamed(cls).python_type
  ELSE IF ClassNamed(Base(cls)).python_type # "inherit"
       THEN ClassNamed(Base(cls)).python_type
  ELSE IF ClassNamed(Base(Base(cls))).python_type # "inherit"
       THEN ClassNamed(Base(Base(cls))).python_type
  ELSE ClassNamed(Base(Base(Base(cls)))).python_type

\* cls.graphbinary_type: the attribute of the nearest class that sets it
graphbinary_type(cls) ==
  IF ClassNamed(cls).graphbinary_type # "inherit"
  THEN ClassNamed(cls).graphbinary_type
  ELSE IF ClassNamed(Base(cls)).graphbinary_type # "inherit"
       THEN ClassNamed(Base(cls)).graphbinary_type
  ELSE IF ClassNamed(Base(Base(cls))).graphbinary_type # "inherit"
       THEN ClassNamed(Base(Base(cls))).graphbinary_type
  ELSE ClassNamed(Base(Base(Base(cls)))).graphbinary_type

\* cls1 is cls2 or derives from it
DerivesFrom(cls1, cls2) ==
  cls2 \in {cls1, Base(cls1), Base(Base(cls1)), Base(Base(Base(cls1)))}

\* name.startswith('_'), for the names of the declared classes
StartsWithUnderscore(name) == name \in {"_GraphBinaryTypeIO", "_EnumIO"}

\* GraphBinaryTypeType.__new__ stores the i-th class in _serializers
RegistersSerializer(i) ==
  /\ ~StartsWithUnderscore(Classes[i].name)
  /\ python_type(Classes[i].name) # "None"

\* GraphBinaryTypeType.__new__ stores the i-th class in _deserializers
RegistersDeserializer(i) ==
  /\ ~StartsWithUnderscore(Classes[i].name)
  /\ graphbinary_type(Classes[i].name) # "None"

\* the largest element of a non-empty set of integers
Last(S) == CHOOSE i \in S : \A j \in S : j <= i

\* the declarations that store under a key of _serializers
SerializerDecls(k) ==
  { i \in DOMAIN Classes : RegistersSerializer(i) /\ python_type(Classes[i].name) = k }

\* the declarations that store under a key of _deserializers
DeserializerDecls(k) ==
  { i \in DOMAIN Classes :
      RegistersDeserializer(i) /\ graphbinary_type(Classes[i].name) = k }

\* _serializers as it would be if a declaration did not replace the class
\* an earlier declaration stored under the same key
_serializersFirstWins ==
  SelectSeq([ i \in DOMAIN Classes |->
                [key |-> python_type(Classes[i].name), decl |-> i,
                 cls |-> Classes[i].name] ],
            LAMBDA e : /\ RegistersSerializer(e.decl)
                       /\ \A j \in SerializerDecls(e.key) : e.decl <= j)

\* _serializers once the module is imported: an OrderedDict, kept as the
\* sequence of its entries [key, cls, decl].  A key stands where the first
\* declaration storing under it (decl) put it and holds the class of the
\* last one (_serializers[cls.python_type] = cls)
_serializers ==
  SelectSeq([ i \in DOMAIN Classes |->
                LET k == python_type(Classes[i].name)
                IN [key |-> k, decl |-> i,
                    cls |-> IF RegistersSerializer(i)
                            THEN Classes[Last(SerializerDecls(k))].name ELSE ""] ],
            LAMBDA e : /\ RegistersSerializer(e.decl)
                       /\ \A j \in SerializerDecls(e.key) : e.decl <= j)

\* _deserializers once the module is imported, kept like _serializers
\* (_deserializers[cls.graphbinary_type] = cls)
_deserializers ==
  SelectSeq([ i \in DOMAIN Classes |->
                LET k == graphbinary_type(Classes[i].name)
                IN [key |-> k, decl |-> i,
                    cls |-> IF RegistersDeserializer(i)
                            THEN Classes[Last(DeserializerDecls(k))].name ELSE ""] ],
            LAMBDA e : /\ RegistersDeserializer(e.decl)
                       /\ \A j \in DeserializerDecls(e.key) : e.decl <= j)

(***************************************************************************)
(* Strings are sequences of code points; the literals below are spelled    *)
(* out with the text they stand for.                                       *)
(***************************************************************************)
\* _GraphBinaryTypeIO.symbolMap, as <<key, value>> pairs
symbolMap ==
  {
     <<<<103, 108, 111, 98, 97, 108, 95>>, <<103, 108, 111, 98, 97, 108>>>>,   \* "global_": "global"
     <<<<97, 115, 95>>, <<97, 115>>>>,   \* "as_": "as"
     <<<<105, 110, 95>>, <<105, 110>>>>,   \* "in_": "in"
     <<<<97, 110, 100, 95>>, <<97, 110, 100>>>>,   \* "and_": "and"
     <<<<111, 114, 95>>, <<111, 114>>>>,   \* "or_": "or"
     <<<<105, 115, 95>>, <<105, 115>>>>,   \* "is_": "is"
     <<<<110, 111, 116, 95>>, <<110, 111, 116>>>>,   \* "not_": "not"
     <<<<102, 114, 111, 109, 95>>, <<102, 114, 111, 109>>>>,   \* "from_": "from"
     <<<<115, 101, 116, 95>>, <<115, 101, 116>>>>,   \* "set_": "set"
     <<<<108, 105, 115, 116, 95>>, <<108, 105, 115, 116>>>>,   \* "list_": "list"
     <<<<97, 108, 108, 95>>, <<97, 108, 108>>>>,   \* "all_": "all"
     <<<<119, 105, 116, 104, 95>>, <<119, 105, 116, 104>>>>,   \* "with_": "with"
     <<<<102, 105, 108, 116, 101, 114, 95>>, <<102, 105, 108, 116, 101, 114>>>>,   \* "filter_": "filter"
     <<<<105, 100, 95>>, <<105, 100>>>>,   \* "id_": "id"
     <<<<109, 97, 120, 95>>, <<109, 97, 120>>>>,   \* "max_": "max"
     <<<<109, 105, 110, 95>>, <<109, 105, 110>>>>,   \* "min_": "min"
     <<<<115, 117, 109, 95>>, <<115, 117, 109>>>>    \* "sum_": "sum"
  }

\* cls.symbolMap.get(symbol, symbol)
unmangleKeyword(symbol) ==
  IF \E e \in symbolMap : e[1] = symbol
  THEN (CHOOSE e \in symbolMap : e[1] = symbol)[2]
  ELSE symbol

\* the member names of the traversal enums
EnumNames(enum) ==
  IF enum = "Barrier"   \* normSack
  THEN { <<110, 111, 114, 109, 83, 97, 99, 107>> }
  ELSE
  IF enum = "Cardinality"   \* list_ set_ single
  THEN { <<108, 105, 115, 116, 95>>,
         <<115, 101, 116, 95>>,
         <<115, 105, 110, 103, 108, 101>> }
  ELSE
  IF enum = "Column"   \* keys values
  THEN { <<107, 101, 121, 115>>,
         <<118, 97, 108, 117, 101, 115>> }
  ELSE
  IF enum = "Direction"   \* BOTH IN OUT
  THEN { <<66, 79, 84, 72>>,
         <<73, 78>>,
         <<79, 85, 84>> }
  ELSE
  IF enum = "Operator"   \* addAll and_ assign div max max_ min min_ minus mult or_ sum sum_ sumLong
  THEN { <<97, 100, 100, 65, 108, 108>>,
         <<97, 110, 100, 95>>,
         <<97, 115, 115, 105, 103, 110>>,
         <<100, 105, 118>>,
         <<109, 97, 120>>,
         <<109, 97, 120, 95>>,
         <<109, 105, 110>>,
         <<109, 105, 110, 95>>,
         <<109, 105, 110, 117, 115>>,
         <<109, 117, 108, 116>>,
         <<111, 114, 95>>,
         <<115, 117, 109>>,
         <<115, 117, 109, 95>>,
         <<115, 117, 109, 76, 111, 110, 103>> }
  ELSE
  IF enum = "Order"   \* asc decr desc incr shuffle
  THEN { <<97, 115, 99>>,
         <<100, 101, 99, 114>>,
         <<100, 101, 115, 99>>,
         <<105, 110, 99, 114>>,
         <<115, 104, 117, 102, 102, 108, 101>> }
  ELSE
  IF enum = "Pick"   \* any none
  THEN { <<97, 110, 121>>,
         <<110, 111, 110, 101>> }
  ELSE
  IF enum = "Pop"   \* all_ first last mixed
  THEN { <<97, 108, 108, 95>>,
         <<102, 105, 114, 115, 116>>,
         <<108, 97, 115, 116>>,
         <<109, 105, 120, 101, 100>> }
  ELSE
  IF enum = "Scope"   \* global_ local
  THEN { <<103, 108, 111, 98, 97, 108, 95>>,
         <<108, 111, 99, 97, 108>> }
  ELSE
  IF enum = "T"   \* id id_ key label value
  THEN { <<105, 100>>,
         <<105, 100, 95>>,
         <<107, 101, 121>>,
         <<108, 97, 98, 101, 108>>,
         <<118, 97, 108, 117, 101>> }
  ELSE
  {}

\* the names of the enum classes
EnumTypes ==
  {"Barrier", "Cardinality", "Column", "Direction", "Operator", "Order",
   "Pick", "Pop", "Scope", "T"}

\* statics.default_lambda_language: "gremlin-python"
default_lambda_language == <<103, 114, 101, 109, 108, 105, 110, 45, 112, 121, 116, 104, 111, 110>>

\* "gremlin-jython"
GremlinJython == <<103, 114, 101, 109, 108, 105, 110, 45, 106, 121, 116, 104, 111, 110>>

\* "lambda" and "lambda "
LambdaWord == <<108, 97, 109, 98, 100, 97>>
LambdaPrefix == <<108, 97, 109, 98, 100, 97, 32>>

(***************************************************************************)
(* Writer.  A call returns                                                 *)
(*   [st |-> "bytes", b |-> the bytearray]                                 *)
(*   [st |-> "raise", err |-> the exception raised]                        *)
(*   [st |-> "self"]       the argument itself, unchanged                  *)
(*   [st |-> "container"]  a new dict, set or list (not a bytearray)       *)
(***************************************************************************)
WBytes(b) == [st |-> "bytes", b |-> b, err |-> ""]
WRaise(e) == [st |-> "raise", b |-> <<>>, err |-> e]
WSelf == [st |-> "self", b |-> <<>>, err |-> ""]
WContainer == [st |-> "container", b |-> <<>>, err |-> ""]

\* ba.extend(x) where ba is the outcome so far and x the outcome of the
\* expression extended with: an exception propagates, a bytearray is
\* appended, None or an object that is not iterable raises TypeError
Extend(ba, x) ==
  Then(ba, LAMBDA u :
    IF u.st # "bytes" THEN u
    ELSE Then(x, LAMBDA v :
      IF v.st = "bytes" THEN WBytes(u.b \o v.b)
      ELSE IF v.st = "raise" THEN v
      ELSE WRaise("TypeError")))

\* _GraphBinaryTypeIO.write_as_value
write_as_value(graph_binary_type, as_value) ==
  IF as_value THEN "None" ELSE graph_binary_type

\* _GraphBinaryTypeIO.as_bytes(graphbin_type, size, arg): size is <<>> for
\* None and <<n>> otherwise; arg is the outcome of the argument expression
as_bytes(graphbin_type, size, arg) ==
  LET ba0 == IF graphbin_type = "None" THEN <<>> ELSE <<DataType[graphbin_type]>>
      ba1 == ba0 \o <<0>>
      ba2 == IF size # <<>> THEN ba1 \o PackI32(size[1]) ELSE ba1
  IN Then(arg, LAMBDA x :
       IF x.st = "raise" THEN x
       ELSE IF x.st = "bytes" THEN WBytes(ba2 \o x.b)
       ELSE WRaise("Exception"))

\* _GraphBinaryTypeIO.string_as_bytes: len(s) counts characters
string_as_bytes(str) ==
  PackI32(Len(str)) \o Utf8Encode(str)

\* cls.byte_format, looked up along the base classes
byte_format(cls) ==
  IF DerivesFrom(cls, "DoubleIO") THEN ">d"
  ELSE IF DerivesFrom(cls, "FloatIO") THEN ">f"
  ELSE IF DerivesFrom(cls, "IntIO") THEN ">i"
  ELSE ">q"

\* the bit patterns NAN, POSITIVE_INFINITY and NEGATIVE_INFINITY
NAN == <<127, 248, 0, 0, 0, 0, 0, 0>>
POSITIVE_INFINITY == <<127, 240, 0, 0, 0, 0, 0, 0>>
NEGATIVE_INFINITY == <<255, 240, 0, 0, 0, 0, 0, 0>>

\* math.isnan on a double bit pattern
isnan(d) ==
  /\ d[1] % 128 = 127 /\ d[2] >= 240
  /\ (d[2] > 240 \/ \E i \in 3..8 : d[i] # 0)

\* math.isinf on a double bit pattern
isinf(d) == d[1] % 128 = 127 /\ d[2] = 240 /\ \A i \in 3..8 : d[i] = 0

\* struct.pack(">f", x) for a double x that a single represents exactly
\* (zero, infinity, NaN, or a normal number with a short mantissa)
PackF32(d) ==
  LET sign == d[1] \div 128
      e == (d[1] % 128) * 16 + (d[2] \div 16)
      m == (d[2] % 16) * 524288 + d[3] * 2048 + d[4] * 8 + (d[5] \div 32)
      e32 == IF e = 0 THEN 0 ELSE IF e = 2047 THEN 255 ELSE e - 896
  IN << sign * 128 + (e32 \div 2), (e32 % 2) * 128 + (m \div 65536),
        (m \div 256) % 256, m % 256 >>

\* the double that struct.unpack(">f", b)[0] returns for a 4-byte b that is
\* zero, infinity, NaN or a normal number
UnpackF32(b) ==
  LET sign == b[1] \div 128
      e == (b[1] % 128) * 2 + (b[2] \div 128)
      m == (b[2] % 128) * 65536 + b[3] * 256 + b[4]
      e64 == IF e = 0 THEN 0 ELSE IF e = 255 THEN 2047 ELSE e + 896
  IN << sign * 128 + (e64 \div 16), (e64 % 16) * 16 + (m \div 524288),
        (m \div 2048) % 256, (m \div 8) % 256, (m % 8) * 32, 0, 0, 0 >>

\* struct.pack(cls.byte_format, x) for a float x
PackFloat(fmt, d) == IF fmt = ">f" THEN PackF32(d) ELSE d

\* s.strip(): leading and trailing whitespace removed
RECURSIVE lstrip(_)
lstrip(str) ==
  IF str # <<>> /\ Head(str) \in {32, 9, 10, 13} THEN lstrip(Tail(str)) ELSE str

\* s.startswith(prefix)
startswith(str, prefix) ==
  Len(str) >= Len(prefix) /\ SubSeq(str, 1, Len(prefix)) = prefix

\* GraphBinaryWriter.serializers, the writer's copy of _serializers
VARIABLE serializers

RECURSIVE toDict(_)
RECURSIVE dictify(_, _, _)
RECURSIVE WriteAll(_)
RECURSIVE WriteInsts(_)

\* GraphBinaryWriter.writeObject
writeObject(objectData) == toDict(objectData)

\* ba.extend(writer.writeObject(item)) for every item of items, in order,
\* starting from an empty bytearray
WriteAll(items) ==
  IF items = <<>> THEN WBytes(<<>>)
  ELSE Then(writeObject(Head(items)), LAMBDA first :
         IF first.st = "raise" THEN first
         ELSE IF first.st # "bytes" THEN WRaise("TypeError")
         ELSE Extend(first, WriteAll(Tail(items))))

\* the loop of BytecodeIO.dictify over a list of instructions
WriteInsts(insts) ==
  IF insts = <<>> THEN WBytes(<<>>)
  ELSE LET inst == Head(insts)
           inst_name == inst.s
           inst_args == inst.l
       IN Then(Extend(WBytes(string_as_bytes(inst_name) \o PackI32(Len(inst_args))),
                      WriteAll(inst_args)),
               LAMBDA this :
                 IF this.st # "bytes" THEN this
                 ELSE Extend(this, WriteInsts(Tail(insts))))

\* PIO.dictify as it would be if it wrote the type code whatever as_value
PDictifyQualified(cls, obj, as_value) ==
  LET ba1 == <<DataType[graphbinary_type(cls)]>> \o string_as_bytes(operator(obj))
  IN Then(writeObject(value(obj)), LAMBDA wv :
       IF other(obj) # None
       THEN Then(writeObject(other(obj)), LAMBDA wo :
              IF wv.st = "raise" THEN wv
              ELSE IF wo.st = "raise" THEN wo
              ELSE Extend(Extend(WBytes(ba1 \o PackI32(2)), wv), wo))
       ELSE IF wv.st = "raise" THEN wv
       ELSE Extend(WBytes(ba1 \o PackI32(1)), wv))

\* PIO.dictify and TextPIO.dictify, which share their body
PDictify(cls, obj, as_value) ==
  LET ba0 == IF as_value THEN <<>> ELSE <<DataType[graphbinary_type(cls)]>>
      ba1 == ba0 \o string_as_bytes(operator(obj))
  IN Then(writeObject(value(obj)), LAMBDA wv :
       IF other(obj) # None
       THEN Then(writeObject(other(obj)), LAMBDA wo :
              \* additional = [wv, wo]
              IF wv.st = "raise" THEN wv
              ELSE IF wo.st = "raise" THEN wo
              ELSE Extend(Extend(WBytes(ba1 \o PackI32(2)), wv), wo))
       \* additional = [wv]
       ELSE IF wv.st = "raise" THEN wv
       ELSE Extend(WBytes(ba1 \o PackI32(1)), wv))

\* obj < -9223372036854775808 or obj > 9223372036854775807, for an integer
\* kept as a two's complement pattern of 8 or 9 bytes
OutOfRange64(b) ==
  /\ Len(b) = 9
  /\ ~(b[1] = 0 /\ b[2] < 128)
  /\ ~(b[1] = 255 /\ b[2] >= 128)

\* LongIO.dictify as it would be without the range test, packing the low
\* 64 bits of the integer
LongDictifyWrapping(cls, obj, as_value) ==
  LET gt == write_as_value(graphbinary_type(cls), as_value)
  IN IF obj.s # <<>>
     THEN IF byte_format(cls) = ">q"
          THEN as_bytes(gt, <<>>, WBytes(SubSeq(obj.s, Len(obj.s) - 7, Len(obj.s))))
          ELSE WRaise("struct.error")
     ELSE as_bytes(gt, <<>>, WBytes(IF byte_format(cls) = ">q"
                                    THEN PackI64(obj.n) ELSE PackI32(obj.n)))

\* LongIO.dictify, inherited by IntIO.  An integer within the model's
\* integers is in obj.n; a wider one is in obj.s as its two's complement
\* pattern, which struct.pack(">i", obj) cannot pack
LongDictify(cls, obj, as_value) ==
  LET gt == write_as_value(graphbinary_type(cls), as_value)
  IN IF obj.s # <<>> /\ OutOfRange64(obj.s)
     THEN WRaise("Exception")
     ELSE IF obj.s # <<>>
     THEN IF byte_format(cls) = ">q"
          THEN as_bytes(gt, <<>>, WBytes(SubSeq(obj.s, Len(obj.s) - 7, Len(obj.s))))
          ELSE WRaise("struct.error")
     ELSE as_bytes(gt, <<>>, WBytes(IF byte_format(cls) = ">q"
                                    THEN PackI64(obj.n) ELSE PackI32(obj.n)))

\* LambdaIO.dictify
LambdaDictify(cls, obj, as_value) ==
  LET ba0 == IF as_value THEN <<>> ELSE <<DataType[graphbinary_type(cls)]>>
      script == obj.s
      language == IF obj.l = <<>> THEN default_lambda_language ELSE obj.l[1].s
      python == language = GremlinJython \/ language = default_lambda_language
      script_cleaned == IF python /\ ~startswith(lstrip(script), LambdaWord)
                        THEN LambdaPrefix \o script ELSE script
      script_args == IF python THEN obj.n ELSE -1
  IN WBytes(ba0 \o string_as_bytes(language) \o string_as_bytes(script_cleaned)
            \o PackI32(script_args))

\* cls.dictify(obj, writer, as_value) for the handler class cls
dictify(cls, obj, as_value) ==
  LET gt == write_as_value(graphbinary_type(cls), as_value)
      null == <<DataType.null>>
  IN
  CASE DerivesFrom(cls, "FloatIO") ->
         \* FloatIO.dictify, inherited by DoubleIO
         IF isnan(obj.s) THEN as_bytes(gt, <<>>, WBytes(PackFloat(byte_format(cls), NAN)))
         ELSE IF isinf(obj.s) /\ obj.s[1] < 128
              THEN as_bytes(gt, <<>>, WBytes(PackFloat(byte_format(cls), POSITIVE_INFINITY)))
         ELSE IF isinf(obj.s) /\ obj.s[1] >= 128
              THEN as_bytes(gt, <<>>, WBytes(PackFloat(byte_format(cls), NEGATIVE_INFINITY)))
         ELSE as_bytes(gt, <<>>, WBytes(PackFloat(byte_format(cls), obj.s)))
    [] DerivesFrom(cls, "LongIO") /\ ~DerivesFrom(cls, "FloatIO") ->
         LongDictify(cls, obj, as_value)
    [] cls = "DateIO" -> as_bytes(gt, <<>>, WBytes(PackI64(obj.n)))
    [] cls = "TimestampIO" -> as_bytes(gt, <<>>, WBytes(PackI64(obj.n)))
    [] cls = "TypeSerializer" -> toDict(obj.l[1])
    [] cls = "StringIO" -> as_bytes(gt, <<Len(obj.s)>>, WBytes(Utf8Encode(obj.s)))
    [] DerivesFrom(cls, "ListIO") ->
         \* ListIO.dictify, inherited by SetIO
         as_bytes(gt, <<Len(obj.l)>>, WriteAll(obj.l))
    [] cls = "MapIO" -> as_bytes(gt, <<Len(obj.l) \div 2>>, WriteAll(obj.l))
    [] cls = "UuidIO" -> as_bytes(gt, <<>>, WBytes(obj.s))
    [] cls = "EdgeIO" ->
         LET ba1 == WriteAll(<<id(obj)>>)
             ba2 == Extend(ba1, WBytes(string_as_bytes(label(obj))))
             ba3 == Extend(ba2, WriteAll(<<id(inV(obj))>>))
             ba4 == Extend(ba3, WBytes(string_as_bytes(label(inV(obj)))))
             ba5 == Extend(ba4, WriteAll(<<id(outV(obj))>>))
             ba6 == Extend(ba5, WBytes(string_as_bytes(label(outV(obj)))))
         IN as_bytes(gt, <<>>, Extend(Extend(ba6, WBytes(null)), WBytes(null)))
    [] cls = "PathIO" ->
         as_bytes(gt, <<>>, WriteAll(<<labels(obj), objects(obj)>>))
    [] cls = "PropertyIO" ->
         LET ba1 == WBytes(string_as_bytes(key(obj)))
             ba2 == Extend(ba1, WriteAll(<<value(obj)>>))
         IN as_bytes(gt, <<>>, Extend(ba2, WBytes(null)))
    [] cls = "TinkerGraphIO" -> WRaise("AttributeError")
    [] cls = "VertexIO" ->
         LET ba1 == WriteAll(<<id(obj)>>)
             ba2 == Extend(ba1, WBytes(string_as_bytes(label(obj))))
         IN as_bytes(gt, <<>>, Extend(ba2, WBytes(null)))
    [] cls = "VertexPropertyIO" ->
         LET ba1 == WriteAll(<<id(obj)>>)
             ba2 == Extend(ba1, WBytes(string_as_bytes(label(obj))))
             ba3 == Extend(ba2, WriteAll(<<value(obj)>>))
         IN as_bytes(gt, <<>>, Extend(Extend(ba3, WBytes(null)), WBytes(null)))
    [] DerivesFrom(cls, "_EnumIO") ->
         as_bytes(gt, <<>>, WBytes(string_as_bytes(unmangleKeyword(obj.s))))
    [] cls = "BindingIO" ->
         LET ba1 == WBytes(string_as_bytes(key(obj)))
         IN as_bytes(gt, <<>>, Extend(ba1, WriteAll(<<value(obj)>>)))
    [] cls = "BytecodeIO" ->
         LET ba1 == WBytes(PackI32(Len(step_instructions(obj))))
             ba2 == Extend(ba1, WriteInsts(step_instructions(obj)))
             ba3 == Extend(ba2, WBytes(PackI32(Len(source_instructions(obj)))))
             ba4 == Extend(ba3, WriteInsts(source_instructions(obj)))
         IN as_bytes(gt, <<>>, ba4)
    [] cls = "LambdaIO" -> LambdaDictify(cls, obj, as_value)
    [] cls = "PIO" -> PDictify(cls, obj, as_value)
    [] cls = "TraverserIO" ->
         LET ba1 == WBytes(PackI64(bulk(obj)))
         IN as_bytes(gt, <<>>, Extend(ba1, WriteAll(<<object(obj)>>)))
    [] cls = "ByteIO" ->
         IF obj.n < -128 \/ obj.n > 127 THEN WRaise("struct.error")
         ELSE as_bytes(gt, <<>>, WBytes(PackI8(obj.n)))
    [] cls = "ByteBufferIO" -> as_bytes(gt, <<Len(obj.s)>>, WBytes(obj.s))
    [] cls = "BooleanIO" -> as_bytes(gt, <<>>, WBytes(PackI8(IF obj.n # 0 THEN 1 ELSE 0)))
    [] cls = "TextPIO" -> PDictify(cls, obj, as_value)
    [] OTHER -> WRaise("NotImplementedError")


\* the outcome of GraphBinaryWriter.toDict when no serializer is found
\* neither for type(obj) nor for a class obj is an instance of
toDictFallback(obj) ==
  IF isinstance(obj, "dict") THEN WContainer
  ELSE IF isinstance(obj, "set") THEN WContainer
  ELSE IF isinstance(obj, "list") THEN WContainer
  ELSE WSelf

\* GraphBinaryWriter.toDict
toDict(obj) ==
  IF \E i \in DOMAIN serializers : serializers[i].key = obj.t
  THEN dictify(serializers[CHOOSE i \in DOMAIN serializers :
                             serializers[i].key = obj.t].cls, obj, FALSE)
  ELSE IF \E i \in DOMAIN serializers : isinstance(obj, serializers[i].key)
  THEN dictify(serializers[CHOOSE i \in DOMAIN serializers :
                             /\ isinstance(obj, serializers[i].key)
                             /\ \A j \in 1..(i - 1) :
                                  ~isinstance(obj, serializers[j].key)].cls,
               obj, FALSE)
  ELSE toDictFallback(obj)

(***************************************************************************)
(* Reader.  The byte source is a sequence b with a cursor pos (the number  *)
(* of bytes consumed).  A call returns                                     *)
(*   [st |-> "ok", val |-> the object, pos |-> the cursor afterwards]      *)
(*   [st |-> "raise", err |-> the exception raised, pos |-> the cursor]    *)
(***************************************************************************)
ROk(val, pos) == [st |-> "ok", val |-> val, pos |-> pos, err |-> ""]
RRaise(e, pos) == [st |-> "raise", val |-> None, pos |-> pos, err |-> e]

\* the bytes buff.read(n) returns at cursor pos: short at the end of the
\* input, and everything that is left when n is negative
read(b, pos, n) ==
  IF n < 0 THEN SubSeq(b, pos + 1, Len(b))
  ELSE SubSeq(b, pos + 1, IF pos + n < Len(b) THEN pos + n ELSE Len(b))

\* _GraphBinaryTypeIO.read_int; val is the integer itself
read_int(b, pos) ==
  LET d == read(b, pos, 4)
  IN IF Len(d) < 4 THEN [st |-> "raise", val |-> 0, pos |-> pos + Len(d),
                          err |-> "struct.error"]
     ELSE [st |-> "ok", val |-> UnpackI32(d), pos |-> pos + 4, err |-> ""]

\* _GraphBinaryTypeIO.read_string; val is the sequence of code points
read_string(b, pos) ==
  Then(read_int(b, pos), LAMBDA size :
    IF size.st = "raise" THEN [size EXCEPT !.val = <<>>]
    ELSE LET d == read(b, size.pos, size.val)
         IN Then(Utf8Decode(d), LAMBDA u :
              IF ~u.ok THEN [st |-> "raise", val |-> <<>>, pos |-> size.pos + Len(d),
                             err |-> "UnicodeDecodeError"]
              ELSE [st |-> "ok", val |-> u.s, pos |-> size.pos + Len(d), err |-> ""]))

\* struct.unpack(">q", b.read(8))[0] as an object of type t: a value within
\* the model's integers in n, a wider one as its bit pattern in s
read_long(t, b, pos) ==
  LET d == read(b, pos, 8)
  IN IF Len(d) < 8 THEN RRaise("struct.error", pos + Len(d))
     ELSE IF IsNarrowI64(d)
          THEN ROk(Obj(t, UnpackI32(SubSeq(d, 5, 8)), <<>>, <<>>), pos + 8)
     ELSE ROk(Obj(t, 0, d, <<>>), pos + 8)

\* the elements of seq without repetitions, first occurrences in order
RECURSIVE Dedup(_)
Dedup(seq) ==
  IF seq = <<>> THEN <<>>
  ELSE LET init == Dedup(SubSeq(seq, 1, Len(seq) - 1))
           last == seq[Len(seq)]
       IN IF \E i \in DOMAIN init : init[i] = last THEN init ELSE Append(init, last)

\* the_dict[k] = v on a dict kept as the sequence k1, v1, k2, v2, ...
DictSet(d, k, v) ==
  IF \E i \in DOMAIN d : i % 2 = 1 /\ d[i] = k
  THEN [i \in DOMAIN d |-> IF i % 2 = 0 /\ d[i - 1] = k THEN v ELSE d[i]]
  ELSE d \o <<k, v>>


\* the name of the DataType member with the given value
DataTypeName(v) == CHOOSE k \in DOMAIN DataType : DataType[k] = v

\* F applied to the outcome of the call e unless e raised, in which case
\* the exception propagates
Bind(e, F(_)) ==
  CHOOSE r \in { IF x.st = "raise" THEN RRaise(x.err, x.pos) ELSE F(x) : x \in {e} } : TRUE

\* GraphBinaryReader.deserializers, the reader's copy of _deserializers
VARIABLE deserializers

RECURSIVE toObject(_, _)
RECURSIVE objectify(_, _, _)
RECURSIVE ReadObjects(_, _, _)
RECURSIVE ReadMap(_, _, _, _)
RECURSIVE ReadInsts(_, _, _)
RECURSIVE ReadBulks(_, _, _)

\* GraphBinaryReader.readObject on a bytearray or on an open buffer
readObject(b, pos) == toObject(b, pos)

\* size calls of r.readObject(b) in a row; val is a list of the results
ReadObjects(b, pos, size) ==
  IF size <= 0 THEN ROk(List(<<>>), pos)
  ELSE Bind(readObject(b, pos), LAMBDA first :
       Bind(ReadObjects(b, first.pos, size - 1), LAMBDA rest :
         ROk(List(<<first.val>> \o rest.val.l), rest.pos)))

\* the loop of MapIO._read_map, the_dict being the dict read so far
ReadMap(b, pos, size, the_dict) ==
  IF size <= 0 THEN ROk(Dict(the_dict), pos)
  ELSE Bind(readObject(b, pos), LAMBDA k :
       Bind(readObject(b, k.pos), LAMBDA v :
         IF ~Hashable(k.val) THEN RRaise("TypeError", v.pos)
         ELSE ReadMap(b, v.pos, size - 1, DictSet(the_dict, k.val, v.val))))

\* one loop of BytecodeIO._read_bytecode; val is a list of instructions
ReadInsts(b, pos, count) ==
  IF count <= 0 THEN ROk(List(<<>>), pos)
  ELSE Bind(read_string(b, pos), LAMBDA name :
       Bind(read_int(b, name.pos), LAMBDA inst_ct :
       Bind(ReadObjects(b, inst_ct.pos, inst_ct.val), LAMBDA args :
       Bind(ReadInsts(b, args.pos, count - 1), LAMBDA rest :
         ROk(List(<<Inst(name.val, args.val.l)>> \o rest.val.l), rest.pos)))))

\* itm repeated times times (for y in range(bulk): the_list.append(itm))
Repeat(itm, times) == [i \in 1..(IF times > 0 THEN times ELSE 0) |-> itm]

\* the loop of BulkSetIO._read_bulkset
ReadBulks(b, pos, size) ==
  IF size <= 0 THEN ROk(List(<<>>), pos)
  ELSE Bind(readObject(b, pos), LAMBDA itm :
       Bind(read_int(b, itm.pos), LAMBDA blk :
       Bind(ReadBulks(b, blk.pos, size - 1), LAMBDA rest :
         ROk(List(Repeat(itm.val, blk.val) \o rest.val.l), rest.pos))))

\* EdgeIO._read_edge
_read_edge(b, pos) ==
  Bind(readObject(b, pos), LAMBDA edgeid :
  Bind(read_string(b, edgeid.pos), LAMBDA edgelbl :
  Bind(readObject(b, edgelbl.pos), LAMBDA id1 :
  Bind(read_string(b, id1.pos), LAMBDA lbl1 :
  Bind(readObject(b, lbl1.pos), LAMBDA id2 :
  Bind(read_string(b, id2.pos), LAMBDA lbl2 :
    ROk(Edge(edgeid.val, Vertex(id1.val, lbl1.val), edgelbl.val,
             Vertex(id2.val, lbl2.val)),
        lbl2.pos + Len(read(b, lbl2.pos, 2)))))))))

\* VertexIO._read_vertex
_read_vertex(b, pos) ==
  Bind(readObject(b, pos), LAMBDA vid :
  Bind(read_string(b, vid.pos), LAMBDA lbl :
    ROk(Vertex(vid.val, lbl.val), lbl.pos + Len(read(b, lbl.pos, 1)))))

\* PropertyIO._read_property
_read_property(b, pos) ==
  Bind(read_string(b, pos), LAMBDA k :
  Bind(readObject(b, k.pos), LAMBDA v :
    ROk(Property(k.val, v.val, None), v.pos + Len(read(b, v.pos, 1)))))

\* VertexPropertyIO._read_vertexproperty
_read_vertexproperty(b, pos) ==
  Bind(readObject(b, pos), LAMBDA vpid :
  Bind(read_string(b, vpid.pos), LAMBDA lbl :
  Bind(readObject(b, lbl.pos), LAMBDA v :
    LET p1 == v.pos + Len(read(b, v.pos, 1))
    IN ROk(VertexProperty(vpid.val, lbl.val, v.val, None),
           p1 + Len(read(b, p1, 1))))))

\* ListIO._read_list
_read_list(b, pos) ==
  Bind(read_int(b, pos), LAMBDA size : ReadObjects(b, size.pos, size.val))

\* MapIO._read_map
_read_map(b, pos) ==
  Bind(read_int(b, pos), LAMBDA size : ReadMap(b, size.pos, size.val, <<>>))

\* BytecodeIO._read_bytecode
_read_bytecode(b, pos) ==
  Bind(read_int(b, pos), LAMBDA step_count :
  Bind(ReadInsts(b, step_count.pos, step_count.val), LAMBDA steps :
  Bind(read_int(b, steps.pos), LAMBDA source_count :
  Bind(ReadInsts(b, source_count.pos, source_count.val), LAMBDA sources :
    ROk(Bytecode(steps.val.l, sources.val.l), sources.pos)))))

\* TraverserIO._read_traverser
_read_traverser(b, pos) ==
  Bind(read_long("int", b, pos), LAMBDA bk :
  Bind(readObject(b, bk.pos), LAMBDA o :
    ROk(Obj("Traverser", bk.val.n, bk.val.s, <<o.val>>), o.pos)))

\* ByteBufferIO._read_bytebuffer
_read_bytebuffer(b, pos) ==
  Bind(read_int(b, pos), LAMBDA size :
    LET d == read(b, size.pos, size.val)
    IN ROk(ByteBuffer(d), size.pos + Len(d)))

\* BulkSetIO._read_bulkset
_read_bulkset(b, pos) ==
  Bind(read_int(b, pos), LAMBDA size : ReadBulks(b, size.pos, size.val))

\* else_opt(buff, reader) of the objectify of cls: the payload reader
else_opt(cls, b, pos) ==
  CASE cls = "LongIO" -> read_long("int", b, pos)
    [] cls = "IntIO" -> Bind(read_int(b, pos), LAMBDA i : ROk(PyInt(i.val), i.pos))
    [] cls = "DateIO" -> read_long("datetime", b, pos)
    [] cls = "TimestampIO" -> read_long("timestamp", b, pos)
    [] cls = "FloatIO" ->
         LET d == read(b, pos, 4)
             subnormal == d[1] % 128 = 0 /\ d[2] < 128
                          /\ (d[2] # 0 \/ d[3] # 0 \/ d[4] # 0)
         IN IF Len(d) < 4 THEN RRaise("struct.error", pos + Len(d))
            ELSE IF subnormal THEN ROk(Obj("float", 32, d, <<>>), pos + 4)
            ELSE ROk(Float(UnpackF32(d)), pos + 4)
    [] cls = "DoubleIO" ->
         LET d == read(b, pos, 8)
         IN IF Len(d) < 8 THEN RRaise("struct.error", pos + Len(d))
            ELSE ROk(Float(d), pos + 8)
    [] cls = "StringIO" ->
         Bind(read_string(b, pos), LAMBDA str : ROk(Str(str.val), str.pos))
    [] cls = "ListIO" -> _read_list(b, pos)
    [] cls = "MapIO" -> _read_map(b, pos)
    [] cls = "UuidIO" ->
         LET d == read(b, pos, 16)
         IN IF Len(d) # 16 THEN RRaise("ValueError", pos + Len(d))
            ELSE ROk(Uuid(d), pos + 16)
    [] cls = "EdgeIO" -> _read_edge(b, pos)
    [] cls = "PathIO" ->
         Bind(readObject(b, pos), LAMBDA ls :
         Bind(readObject(b, ls.pos), LAMBDA os :
           ROk(Path(ls.val, os.val), os.pos)))
    [] cls = "PropertyIO" -> _read_property(b, pos)
    [] cls = "VertexIO" -> _read_vertex(b, pos)
    [] cls = "VertexPropertyIO" -> _read_vertexproperty(b, pos)
    [] DerivesFrom(cls, "_EnumIO") ->
         Bind(read_string(b, pos), LAMBDA name :
           IF name.val \notin EnumNames(python_type(cls))
           THEN RRaise("KeyError", name.pos)
           ELSE ROk(EnumMember(python_type(cls), name.val), name.pos))
    [] cls = "BindingIO" ->
         Bind(read_string(b, pos), LAMBDA k :
         Bind(readObject(b, k.pos), LAMBDA v :
           ROk(Binding(k.val, v.val), v.pos)))
    [] cls = "BytecodeIO" -> _read_bytecode(b, pos)
    [] cls = "TraverserIO" -> _read_traverser(b, pos)
    [] cls = "ByteIO" ->
         LET d == read(b, pos, 1)
         IN IF Len(d) < 1 THEN RRaise("struct.error", pos)
            ELSE ROk(SingleByte(UnpackI8(d)), pos + 1)
    [] cls = "ByteBufferIO" -> _read_bytebuffer(b, pos)
    [] cls = "BooleanIO" ->
         LET d == read(b, pos, 1)
         IN IF Len(d) < 1 THEN RRaise("struct.error", pos)
            ELSE ROk(Bool(IF UnpackI8(d) = 1 THEN 1 ELSE 0), pos + 1)
    [] cls = "BulkSetIO" -> _read_bulkset(b, pos)

\* _GraphBinaryTypeIO.is_null(buff, reader, else_opt), else_opt being the
\* payload reader of cls
is_null(cls, b, pos) ==
  LET flag == read(b, pos, 1)
  IN IF Len(flag) < 1 THEN RRaise("IndexError", pos)
     ELSE IF flag[1] = 1 THEN ROk(None, pos + 1)
     ELSE else_opt(cls, b, pos + 1)

\* cls.objectify(buff, reader) for the handler class cls
objectify(cls, b, pos) ==
  CASE cls = "SetIO" ->
         \* set(ListIO.objectify(buff, reader, as_value))
         Bind(is_null("ListIO", b, pos), LAMBDA lst :
           IF lst.val = None THEN RRaise("TypeError", lst.pos)
           ELSE IF \E i \in DOMAIN lst.val.l : ~Hashable(lst.val.l[i])
                THEN RRaise("TypeError", lst.pos)
           ELSE ROk(SetOf(Dedup(lst.val.l)), lst.pos))
    [] cls = "TinkerGraphIO" -> RRaise("AttributeError", pos)
    [] cls \in {"LambdaIO", "PIO", "TextPIO", "TypeSerializer"} ->
         \* _GraphBinaryTypeIO.objectify, which these classes do not override
         RRaise("NotImplementedError", pos)
    [] OTHER -> is_null(cls, b, pos)

\* GraphBinaryReader.toObject
toObject(b, pos) ==
  LET bt == read(b, pos, 1)
      bt_value == UnpackI8(bt)
  IN IF Len(bt) < 1 THEN RRaise("IndexError", pos)
     ELSE IF bt[1] = DataType.null THEN ROk(None, pos + 1)
     ELSE IF bt_value \notin DataTypeValues THEN RRaise("ValueError", pos + 1)
     ELSE IF ~\E i \in DOMAIN deserializers :
                  deserializers[i].key = DataTypeName(bt_value)
          THEN RRaise("KeyError", pos + 1)
     ELSE objectify(deserializers[CHOOSE i \in DOMAIN deserializers :
                       deserializers[i].key = DataTypeName(bt_value)].cls,
                    b, pos + 1)

(***************************************************************************)
(* Inputs.                                                                 *)
(***************************************************************************)
\* all sequences over S of length at most n
SeqsUpTo(S, n) == UNION { [1..k -> S] : k \in 0..n }

\* "a", "b", "ab" and the two-byte character U+00E9
StrA == <<97>>
StrB == <<98>>
StrAB == <<97, 98>>
StrEAcute == <<233>>

\* operators of P ("eq", "gt") and of TextP ("containing")
OpEq == <<101, 113>>
OpGt == <<103, 116>>
OpContaining == <<99, 111, 110, 116, 97, 105, 110, 105, 110, 103>>

\* the objects nested inside the composite inputs
Elems == {None, PyInt(1), Str(StrA), Str(StrEAcute)}

\* labels and keys made of one-byte characters
AsciiLabels == {StrA, StrB}

\* 2^63 - 1 and -2^63, the ends of the signed 64-bit range
MaxI64 == <<127, 255, 255, 255, 255, 255, 255, 255>>
MinI64 == <<128, 0, 0, 0, 0, 0, 0, 0>>

\* 2^63 and -2^63 - 1, the integers next to the range
AboveI64 == <<0, 128, 0, 0, 0, 0, 0, 0, 0>>
BelowI64 == <<255, 127, 255, 255, 255, 255, 255, 255, 255>>

\* longs at and around the ends of the signed 64-bit range
WideLongs ==
  { WideLong(b) : b \in {MaxI64, MinI64, AboveI64, BelowI64, <<1>> \o MinI64} }

\* scalar inputs
Scalars ==
  WideLongs \cup
  { None, PyInt(1), PyInt(-2), PyInt(258), Long(5), Long(-1),
    Str(<<>>), Str(StrA), Str(StrAB), Str(StrEAcute), Str(<<8364, 97>>),
    SingleChar(StrA), Bool(0), Bool(1), SingleByte(7), SingleByte(-3),
    ByteBuffer(<<>>), ByteBuffer(<<1, 2, 3>>),
    Float(<<63, 248, 0, 0, 0, 0, 0, 0>>),      \* 1.5
    Float(<<127, 248, 0, 0, 0, 0, 0, 1>>),     \* a NaN
    Float(NEGATIVE_INFINITY),
    Timestamp(1500), Datetime(1000),
    Uuid(<<0, 17, 34, 51, 68, 85, 102, 119, 136, 153, 170, 187, 204, 221, 238, 255>>),
    EnumMember("Order", <<100, 101, 115, 99>>),                 \* Order.desc
    EnumMember("Scope", <<103, 108, 111, 98, 97, 108, 95>>),    \* Scope.global_
    EnumMember("Direction", <<79, 85, 84>>),                    \* Direction.OUT
    Type(PyInt(0)),
    Function(<<120, 58, 32, 120>>, <<>>, 1),                    \* "x: x"
    Graph, Unregistered }

\* the vertices of the edge inputs
EdgeVertices == { Vertex(PyInt(i), lbl) : i \in {1, 3}, lbl \in AsciiLabels }

\* composite inputs
Lists == { List(l) : l \in SeqsUpTo(Elems, MaxLen) }
NestedLists ==
  { List(<<List(<<e>>)>>) : e \in Elems }
    \cup { List(<<PyInt(1), List(<<Str(StrA), PyInt(1)>>)>>), List(<<List(<<>>)>>),
           List(<<Float(<<63, 248, 0, 0, 0, 0, 0, 0>>)>>) }
Sets == { SetOf(l) : l \in {<<>>, <<PyInt(1)>>, <<PyInt(1), Str(StrA)>>} }
Dicts ==
  { Dict(<<k, v>>) : k \in {None, Str(StrA)}, v \in Elems }
    \cup { Dict(<<>>), Dict(<<Str(StrA), PyInt(1), PyInt(1), Str(StrA)>>) }
Vertices ==
  { Vertex(i, lbl) : i \in {None, PyInt(1), Str(StrA)}, lbl \in {StrA, StrEAcute} }
Edges ==
  { Edge(PyInt(9), o, lbl, i) : o \in EdgeVertices, lbl \in {StrA}, i \in EdgeVertices }
Properties ==
  { Property(k, v, None) : k \in {StrA, StrEAcute}, v \in Elems }
VertexProperties ==
  { VertexProperty(PyInt(1), StrA, v, None) : v \in Elems }
Paths ==
  { Path(List(<<Str(StrA)>>), List(<<e>>)) : e \in Elems }
Bindings == { Binding(StrA, v) : v \in Elems }
Traversers == { Traverser(e, n) : e \in Elems, n \in 1..MaxBulk }
Bytecodes ==
  { Bytecode(<<Inst(StrA, args)>>, <<>>) : args \in SeqsUpTo({None, PyInt(1)}, MaxLen) }
    \cup { Bytecode(<<>>, <<>>),
           Bytecode(<<Inst(StrA, <<>>), Inst(StrB, <<Str(StrA)>>)>>,
                    <<Inst(StrB, <<PyInt(1)>>)>>) }
Predicates ==
  { P(o, v, None) : o \in {OpEq, OpGt}, v \in Elems }
    \cup { P(OpGt, PyInt(1), Str(StrA)) }
    \cup { TextP(OpContaining, v, None) : v \in Elems }
    \cup { TextP(OpContaining, Str(StrA), PyInt(1)) }

\* every member of every traversal enum
EnumMembers ==
  UNION { { EnumMember(enum, name) : name \in EnumNames(enum) } : enum \in EnumTypes }

\* the objects handed to the writer
Inputs ==
  Scalars \cup EnumMembers \cup Lists \cup NestedLists \cup Sets \cup Dicts \cup Vertices
    \cup Edges \cup Properties \cup VertexProperties \cup Paths \cup Bindings
    \cup Traversers \cup Bytecodes \cup Predicates

\* the strings handed to string_as_bytes
Strings == {<<>>, StrA, StrAB, StrEAcute, <<8364, 97>>}

\* the bytes placed after a value handed to the reader
Tails == SeqsUpTo({0, 1, DataType.null}, MaxTail)

\* value flags that are neither 0x00 nor 0x01
BadFlags == {2, 255}

\* the entries of the bulksets handed to the reader: a value and its bulk
BulkEntries == { <<v, n>> : v \in {PyInt(1), Str(StrA)}, n \in 1..MaxBulk }

\* the bulksets handed to the reader, as the sequences of their entries
BulkSets == SeqsUpTo(BulkEntries, MaxLen)

\* the values written after a bulkset
Followers == {Bool(1), PyInt(258)}

\* an int or a string on the wire, fully typed
EntryValueBytes(v) ==
  IF v.t = "int" THEN <<DataType.int, 0>> \o PackI32(v.n)
  ELSE <<DataType.string, 0>> \o PackI32(Len(Utf8Encode(v.s))) \o Utf8Encode(v.s)

\* the entries of a bulkset on the wire: each value fully typed, followed by
\* its bulk as an 8-byte big-endian integer
RECURSIVE BulkEntryBytes(_)
BulkEntryBytes(entries) ==
  IF entries = <<>> THEN <<>>
  ELSE EntryValueBytes(Head(entries)[1]) \o PackI64(Head(entries)[2])
         \o BulkEntryBytes(Tail(entries))

\* a bulkset on the wire: type code, flag, i32 count and the entries
BulkSetBytes(entries) ==
  <<DataType.bulkset, 0>> \o PackI32(Len(entries)) \o BulkEntryBytes(entries)

\* the list a bulkset stands for: each value repeated bulk times, in order
RECURSIVE Expand(_)
Expand(entries) ==
  IF entries = <<>> THEN <<>>
  ELSE Repeat(Head(entries)[1], Head(entries)[2]) \o Expand(Tail(entries))

\* the type codes a deserializer is registered for
RegisteredCodes == { DataType[deserializers[i].key] : i \in DOMAIN deserializers }

\* the handler class registered for exactly the type of obj, "" when none
ExactSerializer(obj) ==
  IF \E i \in DOMAIN serializers : serializers[i].key = obj.t
  THEN serializers[CHOOSE i \in DOMAIN serializers : serializers[i].key = obj.t].cls
  ELSE ""

(***************************************************************************)
(* State machine: one call of the codec per step.                          *)
(***************************************************************************)
VARIABLES
  op,          \* the call made last: "init", "writeObject", "dictify",
               \* "string_as_bytes" or "readObject"
  input,       \* the object handed to the writer
  handler,     \* the handler class of a direct dictify call
  value_only,  \* the as_value argument of that call
  written,     \* the outcome of the writer call
  source,      \* the bytes handed to the reader
  how,         \* how source was made: "written", "truncated", "nullflag",
               \* "badflag", "bulkset" or "nullmarker"
  result       \* the outcome of the reader call

vars ==
  <<serializers, deserializers,
    op, input, handler, value_only, written, source, how, result>>

\* placeholders of outcomes before the call is made
NoWrite == [st |-> "none", b |-> <<>>, err |-> ""]
NoRead == [st |-> "none", val |-> None, pos |-> 0, err |-> ""]

\* GraphBinaryWriter() and GraphBinaryReader() are constructed without a
\* serializer_map or deserializer_map; nothing was written or read
Init ==
  /\ serializers = _serializers
  /\ deserializers = _deserializers
  /\ op = "init"
  /\ input = None
  /\ handler = ""
  /\ value_only = FALSE
  /\ written = NoWrite
  /\ source = <<>>
  /\ how = ""
  /\ result = NoRead

\* writer.writeObject(v); calls are made one at a time
WriteObject(v) ==
  /\ op = "init"
  /\ op' = "writeObject"
  /\ input' = v
  /\ handler' = ""
  /\ value_only' = FALSE
  /\ written' = writeObject(v)
  /\ source' = <<>>
  /\ how' = ""
  /\ result' = NoRead
  /\ UNCHANGED <<serializers, deserializers>>

\* a direct call handler.dictify(v, writer, av) of the handler registered
\* for the type of v
Dictify(v, av) ==
  /\ op = "init"
  /\ ExactSerializer(v) # ""
  /\ op' = "dictify"
  /\ input' = v
  /\ handler' = ExactSerializer(v)
  /\ value_only' = av
  /\ written' = dictify(ExactSerializer(v), v, av)
  /\ source' = <<>>
  /\ how' = ""
  /\ result' = NoRead
  /\ UNCHANGED <<serializers, deserializers>>

\* a direct call _GraphBinaryTypeIO.string_as_bytes(str)
StringAsBytes(str) ==
  /\ op = "init"
  /\ op' = "string_as_bytes"
  /\ input' = Str(str)
  /\ handler' = ""
  /\ value_only' = FALSE
  /\ written' = WBytes(string_as_bytes(str))
  /\ source' = <<>>
  /\ how' = ""
  /\ result' = NoRead
  /\ UNCHANGED <<serializers, deserializers>>

\* reader.readObject of the given bytes
Read(bytes, made) ==
  /\ op' = "readObject"
  /\ source' = bytes
  /\ how' = made
  /\ result' = readObject(bytes, 0)
  /\ UNCHANGED <<serializers, deserializers>>

\* the bytes just written are read back, followed by a tail
ReadWritten(tail) ==
  /\ op = "writeObject"
  /\ written.st = "bytes"
  /\ Read(written.b \o tail, "written")
  /\ UNCHANGED <<input, handler, value_only, written>>

\* the first k bytes of the bytes just written, a proper prefix, are read
ReadTruncated(k) ==
  /\ op = "writeObject"
  /\ written.st = "bytes"
  /\ k < Len(written.b)
  /\ Read(SubSeq(written.b, 1, k), "truncated")
  /\ UNCHANGED <<input, handler, value_only, written>>

\* the bytes just written are read with their value flag replaced
ReadBadFlag(flag) ==
  /\ op = "writeObject"
  /\ written.st = "bytes"
  /\ Len(written.b) >= 2
  /\ written.b[1] \in RegisteredCodes
  /\ written.b[2] = 0
  /\ Read([written.b EXCEPT ![2] = flag], "badflag")
  /\ UNCHANGED <<input, handler, value_only, written>>

\* a bulkset followed by the bytes just written is read
ReadBulkSet(entries) ==
  /\ op = "writeObject"
  /\ written.st = "bytes"
  /\ input \in Followers
  /\ Read(BulkSetBytes(entries) \o written.b, "bulkset")
  /\ UNCHANGED <<input, handler, value_only, written>>

\* a type code followed by the null flag and a tail is read
ReadNullFlag(code, tail) ==
  /\ op = "init"
  /\ code \in RegisteredCodes
  /\ Read(<<code, 1>> \o tail, "nullflag")
  /\ input' = None
  /\ handler' = ""
  /\ value_only' = FALSE
  /\ written' = NoWrite

\* the null marker followed by a tail is read
ReadNullMarker(tail) ==
  /\ op = "init"
  /\ Read(<<DataType.null>> \o tail, "nullmarker")
  /\ input' = None
  /\ handler' = ""
  /\ value_only' = FALSE
  /\ written' = NoWrite

\* the call has returned: its outcome is dropped, no codec state persists
Return ==
  /\ op # "init"
  /\ op' = "init"
  /\ input' = None
  /\ handler' = ""
  /\ value_only' = FALSE
  /\ written' = NoWrite
  /\ source' = <<>>
  /\ how' = ""
  /\ result' = NoRead
  /\ UNCHANGED <<serializers, deserializers>>

Next ==
  \/ \E v \in Inputs : WriteObject(v)
  \/ \E v \in Inputs, av \in BOOLEAN : Dictify(v, av)
  \/ \E str \in Strings : StringAsBytes(str)
  \/ \E tail \in Tails : ReadWritten(tail)
  \/ \E k \in 0..MaxKeep : ReadTruncated(k)
  \/ \E flag \in BadFlags : ReadBadFlag(flag)
  \/ \E entries \in BulkSets : ReadBulkSet(entries)
  \/ \E code \in DataTypeValues, tail \in Tails : ReadNullFlag(code, tail)
  \/ \E tail \in Tails : ReadNullMarker(tail)
  \/ Return

Spec == Init /\ [][Next]_vars

(***************************************************************************)
(* Properties of the codec.                                                *)
(***************************************************************************)

\* C1: writeObject(None) returns exactly the one byte 0xFE, and readObject
\* of bytes that start with 0xFE returns None having consumed that one byte
\* only.
C1_TopLevelNull ==
  /\ (op = "writeObject" /\ input = None)
       => written = WBytes(<<DataType.null>>)
  /\ (op = "readObject" /\ how = "nullmarker")
       => result = ROk(None, 1)

\* C2: an Edge(id, outV, label, inV) that is written and read back is an
\* Edge with the same id and label, whose inV has the id and label of the
\* original inV and whose outV has those of the original outV.
C2_EdgeRoundTrip ==
  (op = "readObject" /\ how = "written" /\ input.t = "Edge")
    => /\ result.st = "ok"
       /\ result.val.t = "Edge"
       /\ id(result.val) = id(input)
       /\ label(result.val) = label(input)
       /\ id(inV(result.val)) = id(inV(input))
       /\ label(inV(result.val)) = label(inV(input))
       /\ id(outV(result.val)) = id(outV(input))
       /\ label(outV(result.val)) = label(outV(input))

\* no None occurs in o or anywhere inside it
RECURSIVE NonNullDeep(_)
NonNullDeep(o) ==
  /\ o # None
  /\ \A i \in DOMAIN o.l : NonNullDeep(o.l[i])

\* C3: a list of non-null supported values, nested lists included, is
\* written with a count prefix equal to its number of elements, and reading
\* those bytes returns an equal list, elements in the same order, having
\* consumed all the bytes.
C3_ListRoundTrip ==
  /\ (op = "writeObject" /\ input.t = "list" /\ NonNullDeep(input))
       => /\ written.st = "bytes"
          /\ UnpackI32(SubSeq(written.b, 3, 6)) = Len(input.l)
  /\ (op = "readObject" /\ how = "written" /\ source = written.b
        /\ input.t = "list" /\ NonNullDeep(input))
       => result = ROk(input, Len(source))

\* C4: the i32 length prefix written for a string, as a typed string by
\* StringIO.dictify and as a raw string by string_as_bytes, equals the
\* number of UTF-8 bytes that follow it, also when a character takes more
\* than one byte.
C4_StringLengthPrefix ==
  /\ op = "string_as_bytes"
       => UnpackI32(SubSeq(written.b, 1, 4)) = Len(written.b) - 4
  /\ (op = "writeObject" /\ input.t = "str")
       => /\ written.st = "bytes"
          /\ UnpackI32(SubSeq(written.b, 3, 6)) = Len(written.b) - 6
  /\ (op = "dictify" /\ handler = "StringIO" /\ value_only)
       => /\ written.st = "bytes"
          /\ UnpackI32(SubSeq(written.b, 2, 5)) = Len(written.b) - 5

\* o holds a None at a typed-value position: a list element, a dict key or
\* value, a property value, a vertex id, a traverser object or a bytecode
\* argument
HoldsNull(o) ==
  CASE o.t \in {"list", "dict"} -> \E i \in DOMAIN o.l : o.l[i] = None
    [] o.t = "Property" -> value(o) = None
    [] o.t = "Vertex" -> id(o) = None
    [] o.t = "Traverser" -> object(o) = None
    [] o.t = "Bytecode" ->
         \E i \in DOMAIN step_instructions(o) :
           \E j \in DOMAIN step_instructions(o)[i].l :
             step_instructions(o)[i].l[j] = None
    [] OTHER -> FALSE

\* C5: writing a composite that holds a None at a typed-value position
\* succeeds, and reading the bytes back yields the composite with None at
\* that position.
C5_NestedNull ==
  /\ (op = "writeObject" /\ HoldsNull(input)) => written.st = "bytes"
  /\ (op = "readObject" /\ how = "written" /\ HoldsNull(input))
       => result.st = "ok" /\ result.val = input

\* the type codes whose registered handler implements objectify: every
\* registered code but those of the write-only handlers (lambda, p, textp)
\* and of the unsupported graph
DecodableCodes ==
  RegisteredCodes \ {DataType.lambda_, DataType.p, DataType.textp, DataType.graph}

\* C6: for every type code whose registered handler implements objectify,
\* set and bulkset included, reading the two bytes [type_code, 0x01]
\* returns None without raising and consumes exactly those two bytes,
\* whatever follows them.
C6_NullFlagDecodesToNull ==
  (op = "readObject" /\ how = "nullflag" /\ source[1] \in DecodableCodes)
    => result = ROk(None, 2)

\* o is not None, its type has no entry in the registry, it is an instance
\* of no registered key and it is no dict, set or list
Unresolvable(o) ==
  /\ o # None
  /\ ExactSerializer(o) = ""
  /\ \A i \in DOMAIN serializers : ~isinstance(o, serializers[i].key)
  /\ o.t \notin {"dict", "set", "list"}

\* C7: writeObject of a value other than None that no handler resolves
\* raises an error; it returns nothing, in particular not the value itself.
C7_UnregisteredTypeRaises ==
  (op = "writeObject" /\ Unresolvable(input)) => written.st = "raise"

\* C8: reading a value of a registered type code whose flag byte is neither
\* 0x00 nor 0x01 raises an error; no value is decoded from the bytes after
\* the flag.
C8_InvalidFlagRaises ==
  (op = "readObject" /\ how = "badflag") => result.st = "raise"

\* the bytes are a valid encoding: reading them returns a value and
\* consumes them all
ValidEncoding(bytes) ==
  LET whole == readObject(bytes, 0)
  IN whole.st = "ok" /\ whole.pos = Len(bytes)

\* C9: reading a proper prefix of a valid encoding raises an error and
\* never returns a value, wherever the cut is.
C9_TruncatedRaises ==
  (op = "readObject" /\ how = "truncated" /\ ValidEncoding(written.b))
    => result.st = "raise"

\* a direct call of PIO.dictify or TextPIO.dictify has returned bytes
PredicateWritten ==
  /\ op = "dictify"
  /\ handler \in {"PIO", "TextPIO"}
  /\ written.st = "bytes"

PayloadHead(o) ==
  CASE o.t \in {"P", "TextP"} -> string_as_bytes(operator(o))
    [] o.t = "function" ->
         string_as_bytes(IF o.l = <<>> THEN default_lambda_language ELSE o.l[1].s)
    [] OTHER -> <<>>

\* writeObject has returned the bytes of a value other than None whose type
\* is registered with a handler that has a type code
TypedValueWritten ==
  /\ op = "writeObject"
  /\ written.st = "bytes"
  /\ input # None
  /\ ExactSerializer(input) # ""
  /\ graphbinary_type(ExactSerializer(input)) # "None"

\* C11: the bytes writeObject returns for a non-null value of a registered
\* type, predicates and lambdas included, begin with the handler's type
\* code and the flag byte 0x00, and the payload starts at the third byte.
C11_TypeCodeThenFlag ==
  TypedValueWritten =>
    /\ written.b[1] = DataType[graphbinary_type(ExactSerializer(input))]
    /\ written.b[2] = 0
    /\ SubSeq(written.b, 3, 2 + Len(PayloadHead(input))) = PayloadHead(input)

\* the name without its trailing underscore, if it has one
StripUnderscore(name) ==
  IF name # <<>> /\ name[Len(name)] = 95
  THEN SubSeq(name, 1, Len(name) - 1)
  ELSE name

\* C12: a member of a traversal enum, also one whose name ends in an
\* underscore, is written under its name without the trailing underscore,
\* and reading those bytes returns the same member.
C12_EnumRoundTrip ==
  /\ (op = "writeObject" /\ input.t \in EnumTypes)
       => /\ written.st = "bytes"
          /\ SubSeq(written.b, 3, Len(written.b))
               = string_as_bytes(StripUnderscore(input.s))
  /\ (op = "readObject" /\ how = "written" /\ source = written.b
        /\ input.t \in EnumTypes)
       => result = ROk(input, Len(source))

\* C13: reading a bulkset of i32 count, then count times a fully-typed
\* value and its 8-byte bulk, returns the list in which each value is
\* repeated bulk times in wire order and leaves the cursor right after the
\* last bulk, so that the value following the bulkset is read correctly.
C13_BulkSetDecoding ==
  \A entries \in BulkSets :
    (op = "readObject" /\ how = "bulkset"
       /\ source = BulkSetBytes(entries) \o written.b)
      => /\ result = ROk(List(Expand(entries)), Len(BulkSetBytes(entries)))
         /\ readObject(source, Len(BulkSetBytes(entries)))
              = ROk(input, Len(source))

\* C14: writing a long outside the signed 64-bit range raises the error of
\* the range test and yields no bytes; a long within the range is written
\* as type code 0x02, flag 0x00 and its 8 big-endian payload bytes.
C14_LongRange ==
  (op = "writeObject" /\ input.t = "long")
    => IF input.s # <<>> /\ Len(input.s) > 8
       THEN written = WRaise("Exception")
       ELSE /\ written.st = "bytes"
            /\ Len(written.b) = 10
            /\ written.b[1] = 2
            /\ written.b[2] = 0
            /\ IF input.s # <<>>
               THEN SubSeq(written.b, 3, 10) = input.s
               ELSE /\ UnpackI32(SubSeq(written.b, 7, 10)) = input.n
                    /\ \A i \in 3..6 :
                         written.b[i] = IF input.n < 0 THEN 255 ELSE 0

\* writeObject was called with the long 2^63 and raised
C14_LongAboveRange ==
  /\ op = "writeObject"
  /\ input = WideLong(AboveI64)
  /\ written.st = "raise"

\* the handler class a registry holds under a key
Registered(registry, k) ==
  { registry[i].cls : i \in { j \in DOMAIN registry : registry[j].key = k } }

\* C15: the serializer registered for float is the double handler, which a
\* later declaration stored over the float handler; a float is written
\* with type code 0x07 and an 8-byte payload, top-level or inside a list,
\* nothing is written with the float type code 0x08, and both 0x07 and
\* 0x08 stay registered for reading.
C15_FloatWrittenAsDouble ==
  /\ Registered(serializers, "float") = {"DoubleIO"}
  /\ Registered(deserializers, "double") = {"DoubleIO"}
  /\ Registered(deserializers, "float") = {"FloatIO"}
  /\ {DataType.double, DataType.float} \subseteq RegisteredCodes
  /\ (op = "writeObject" /\ input.t = "float")
       => /\ written.st = "bytes"
          /\ written.b[1] = DataType.double
          /\ written.b[2] = 0
          /\ Len(written.b) = 10
  /\ (op = "writeObject" /\ input.t = "list" /\ Len(input.l) = 1
        /\ input.l[1].t = "float")
       => /\ written.st = "bytes"
          /\ written.b[7] = DataType.double
          /\ Len(written.b) = 16
  /\ (op = "writeObject" /\ written.st = "bytes")
       => written.b[1] # DataType.float

\* writeObject was called with a float and returned ten bytes that begin
\* with the double type code
C15_FloatWritten ==
  /\ op = "writeObject"
  /\ input.t = "float"
  /\ written.st = "bytes"
  /\ written.b[1] = DataType.double
  /\ Len(written.b) = 10

====
